---- MODULE Spec2Model ----
(***************************************************************************)
(* Claude Code version monitor: the check-and-notify workflow run by the   *)
(* scheduled handler (src/index.ts, src/state-manager.ts, src/storage.ts,  *)
(* src/telegram.ts), the semantic-version comparator (src/changelog.ts)    *)
(* and the circuit breaker (src/error-recovery.ts).                        *)
(***************************************************************************)
EXTENDS Integers, Sequences, FiniteSets, TLC

(***************************************************************************)
(* Strings are sequences of one-character strings, so that the string      *)
(* operations of the code (split, regex match, Number) can be computed.    *)
(***************************************************************************)
Digits == {"0", "1", "2", "3", "4", "5", "6", "7", "8", "9"}

Letters == {"a", "b", "e", "h", "l", "p", "t", "A", "B"}

\* the character class [a-zA-Z0-9.-] of the semver regex
IdentChars == Digits \cup Letters \cup {".", "-"}

DigitVal(c) ==
  CASE c = "0" -> 0 [] c = "1" -> 1 [] c = "2" -> 2 [] c = "3" -> 3
    [] c = "4" -> 4 [] c = "5" -> 5 [] c = "6" -> 6 [] c = "7" -> 7
    [] c = "8" -> 8 [] c = "9" -> 9

\* index of the first occurrence of c in s, 0 when absent
RECURSIVE IndexFrom(_, _, _)
IndexFrom(s, c, i) ==
  IF i > Len(s) THEN 0
  ELSE IF s[i] = c THEN i
  ELSE IndexFrom(s, c, i + 1)

IndexOf(s, c) == IndexFrom(s, c, 1)

\* String.prototype.split(sep) for a one-character separator
RECURSIVE Split(_, _)
Split(s, sep) ==
  LET k == IndexOf(s, sep)
  IN IF k = 0 THEN <<s>>
     ELSE <<SubSeq(s, 1, k - 1)>> \o Split(SubSeq(s, k + 1, Len(s)), sep)

IsDigits(s) == Len(s) > 0 /\ \A i \in 1..Len(s) : s[i] \in Digits

IsIdentChars(s) == Len(s) > 0 /\ \A i \in 1..Len(s) : s[i] \in IdentChars

\* Number(s) for a string of decimal digits
RECURSIVE DigitsToNat(_)
DigitsToNat(s) ==
  IF Len(s) = 0 THEN 0
  ELSE 10 * DigitsToNat(SubSeq(s, 1, Len(s) - 1)) + DigitVal(s[Len(s)])

\* /^\d+\.\d+\.\d+(?:-[a-zA-Z0-9.-]+)?(?:\+[a-zA-Z0-9.-]+)?$/
isValidSemver(v) ==
  LET dash == IndexOf(v, "-")
      plus == IndexOf(v, "+")
      \* the core \d+\.\d+\.\d+ ends at the first "-" or "+"
      cut  == IF dash = 0 THEN plus
              ELSE IF plus = 0 THEN dash
              ELSE IF dash < plus THEN dash ELSE plus
      core == IF cut = 0 THEN v ELSE SubSeq(v, 1, cut - 1)
      rest == IF cut = 0 THEN <<>> ELSE SubSeq(v, cut, Len(v))
      nums == Split(core, ".")
      coreOk == Len(nums) = 3 /\ \A i \in 1..3 : IsDigits(nums[i])
      restPlus == IndexOf(rest, "+")
      restOk ==
        IF Len(rest) = 0 THEN TRUE
        ELSE IF rest[1] = "-"
          THEN IF restPlus = 0
                 THEN IsIdentChars(SubSeq(rest, 2, Len(rest)))
                 ELSE /\ IsIdentChars(SubSeq(rest, 2, restPlus - 1))
                      /\ IsIdentChars(SubSeq(rest, restPlus + 1, Len(rest)))
          ELSE IsIdentChars(SubSeq(rest, 2, Len(rest)))
  IN coreOk /\ restOk

\* a missing array element (destructuring past the end) is undefined
Undefined == <<"undefined">>

At(parts, i) == IF i <= Len(parts) THEN parts[i] ELSE Undefined

\* Number(x) of a component of the main part; only applied after validation
ToNumber(s) == IF IsDigits(s) THEN DigitsToNat(s) ELSE -1

parseSemanticVersion(version) ==
  LET byPlus == Split(version, "+")
      versionWithoutBuild == byPlus[1]
      byDash == Split(versionWithoutBuild, "-")
      mainPart == byDash[1]
      nums == Split(mainPart, ".")
  IN [major |-> ToNumber(At(nums, 1)),
      minor |-> ToNumber(At(nums, 2)),
      patch |-> ToNumber(At(nums, 3)),
      prerelease |-> At(byDash, 2),
      build |-> At(byPlus, 2)]

\* a prerelease is truthy when it is neither undefined nor the empty string
Truthy(s) == s # Undefined /\ Len(s) > 0

NaN == -1000000

\* parseInt(s, 10): optional sign, then the longest prefix of digits
ParseInt(s) ==
  LET neg  == Len(s) > 0 /\ s[1] = "-"
      body == IF Len(s) > 0 /\ s[1] \in {"-", "+"} THEN SubSeq(s, 2, Len(s)) ELSE s
      n    == CHOOSE k \in 0..Len(body) :
                /\ \A i \in 1..k : body[i] \in Digits
                /\ (k = Len(body) \/ body[k + 1] \notin Digits)
  IN IF n = 0 THEN NaN
     ELSE IF neg THEN 0 - DigitsToNat(SubSeq(body, 1, n))
     ELSE DigitsToNat(SubSeq(body, 1, n))

\* collation rank of a character under String.prototype.localeCompare:
\* punctuation, then digits, then letters in alphabetical order with the
\* lower-case form before the upper-case form
CollationRank(c) ==
  CASE c = "-" -> 1 [] c = "+" -> 2
    [] c \in Digits -> 10 + DigitVal(c)
    [] c = "a" -> 20 [] c = "A" -> 21 [] c = "b" -> 22 [] c = "B" -> 23
    [] c = "e" -> 28 [] c = "h" -> 34 [] c = "l" -> 42 [] c = "p" -> 50
    [] c = "t" -> 58
    [] OTHER -> 0

RECURSIVE localeCompare(_, _)
localeCompare(a, b) ==
  IF Len(a) = 0 /\ Len(b) = 0 THEN 0
  ELSE IF Len(a) = 0 THEN -1
  ELSE IF Len(b) = 0 THEN 1
  ELSE IF CollationRank(a[1]) # CollationRank(b[1])
    THEN IF CollationRank(a[1]) > CollationRank(b[1]) THEN 1 ELSE -1
  ELSE localeCompare(Tail(a), Tail(b))

Max(a, b) == IF a > b THEN a ELSE b

RECURSIVE comparePartsFrom(_, _, _)

\* variant: two parts are compared as numbers only when both are all digits,
\* and lexically otherwise
comparePartsFromLexical(parts1, parts2, i) ==
  IF i > Max(Len(parts1), Len(parts2)) THEN 0
  ELSE IF i > Len(parts1) THEN -1
  ELSE IF i > Len(parts2) THEN 1
  ELSE LET num1 == DigitsToNat(parts1[i])
           num2 == DigitsToNat(parts2[i])
           cmp  == localeCompare(parts1[i], parts2[i])
       IN IF IsDigits(parts1[i]) /\ IsDigits(parts2[i]) /\ num1 # num2
            THEN (IF num1 > num2 THEN 1 ELSE -1)
          ELSE IF cmp # 0 THEN (IF cmp > 0 THEN 1 ELSE -1)
          ELSE comparePartsFrom(parts1, parts2, i + 1)

comparePartsFrom(parts1, parts2, i) ==
  IF i > Max(Len(parts1), Len(parts2)) THEN 0
  ELSE IF i > Len(parts1) THEN -1
  ELSE IF i > Len(parts2) THEN 1
  ELSE LET num1 == ParseInt(parts1[i])
           num2 == ParseInt(parts2[i])
           cmp  == localeCompare(parts1[i], parts2[i])
       IN IF num1 # NaN /\ num2 # NaN
            THEN IF num1 # num2 THEN (IF num1 > num2 THEN 1 ELSE -1)
                 ELSE comparePartsFrom(parts1, parts2, i + 1)
          ELSE IF num1 # NaN THEN -1
          ELSE IF num2 # NaN THEN 1
          ELSE IF cmp # 0 THEN (IF cmp > 0 THEN 1 ELSE -1)
          ELSE comparePartsFrom(parts1, parts2, i + 1)

comparePrereleases(pre1, pre2) ==
  comparePartsFrom(Split(pre1, "."), Split(pre2, "."), 1)

\* the value thrown by compareVersions on invalid input
ParseError == 99

\* variant: a pre-release on either side makes the first version the lesser
compareVersionsOneSided(v1, v2) ==
  IF ~isValidSemver(v1) \/ ~isValidSemver(v2) THEN ParseError
  ELSE LET p1 == parseSemanticVersion(v1)
           p2 == parseSemanticVersion(v2)
       IN IF p1.major # p2.major THEN (IF p1.major > p2.major THEN 1 ELSE -1)
          ELSE IF p1.minor # p2.minor THEN (IF p1.minor > p2.minor THEN 1 ELSE -1)
          ELSE IF p1.patch # p2.patch THEN (IF p1.patch > p2.patch THEN 1 ELSE -1)
          ELSE IF Truthy(p1.prerelease) /\ ~Truthy(p2.prerelease) THEN -1
          ELSE IF ~Truthy(p1.prerelease) /\ Truthy(p2.prerelease) THEN -1
          ELSE IF Truthy(p1.prerelease) /\ Truthy(p2.prerelease)
            THEN comparePrereleases(p1.prerelease, p2.prerelease)
          ELSE 0

compareVersions(v1, v2) ==
  IF ~isValidSemver(v1) \/ ~isValidSemver(v2) THEN ParseError
  ELSE LET p1 == parseSemanticVersion(v1)
           p2 == parseSemanticVersion(v2)
       IN IF p1.major # p2.major THEN (IF p1.major > p2.major THEN 1 ELSE -1)
          ELSE IF p1.minor # p2.minor THEN (IF p1.minor > p2.minor THEN 1 ELSE -1)
          ELSE IF p1.patch # p2.patch THEN (IF p1.patch > p2.patch THEN 1 ELSE -1)
          ELSE IF Truthy(p1.prerelease) /\ ~Truthy(p2.prerelease) THEN -1
          ELSE IF ~Truthy(p1.prerelease) /\ Truthy(p2.prerelease) THEN 1
          ELSE IF Truthy(p1.prerelease) /\ Truthy(p2.prerelease)
            THEN comparePrereleases(p1.prerelease, p2.prerelease)
          ELSE 0

\* variant: the arguments of the comparison are exchanged
isNewVersionAvailableSwapped(currentVersion, latestVersion) ==
  IF ~isValidSemver(currentVersion) \/ ~isValidSemver(latestVersion) THEN FALSE
  ELSE compareVersions(currentVersion, latestVersion) > 0

isNewVersionAvailable(currentVersion, latestVersion) ==
  IF ~isValidSemver(currentVersion) \/ ~isValidSemver(latestVersion) THEN FALSE
  ELSE compareVersions(latestVersion, currentVersion) > 0


(***************************************************************************)
(* The check-and-notify workflow.                                          *)
(***************************************************************************)

\* bounds of the model: invocations of scheduled() (in sequence, and when
\* they may overlap) and edits of the changelog document
MaxRuns == 4

MaxOverlappingRuns == 3

MaxPublish == 2

MaxOverlappingPublish == 1

\* runs and changelog edits over a store that may be rewritten or evicted
MaxStoreRuns == 2

MaxStorePublish == 1

\* the two invocations that may overlap (scheduled run and manual trigger)
Runs == {1, 2}

\* versions the changelog may carry as its topmost entry
V100beta == <<"1", ".", "0", ".", "0", "-", "b", "e", "t", "a">>

V100 == <<"1", ".", "0", ".", "0">>

V110 == <<"1", ".", "1", ".", "0">>

Pool == {V100beta, V100, V110}

NoVersion == <<>>

NoTime == 0

\* kv.get(STORAGE_KEY) of a key that holds nothing
NoRecord ==
  [kind |-> "none", lastVersion |-> NoVersion, lastCheckTime |-> NoTime,
   lastNotificationTime |-> NoTime]

StorageState(version, checkTime, notificationTime) ==
  [kind |-> "valid", lastVersion |-> version, lastCheckTime |-> checkTime,
   lastNotificationTime |-> notificationTime]

isValidStorageState(data) == data.kind = "valid"

\* default retries of getState and setState, and of sendTelegramNotification
StorageRetries == 2

SendRetries == 3

VARIABLES
  kv,         \* the record under STORAGE_KEY in the KV namespace
  changelog,  \* the topmost version of the changelog document
  clock,      \* the time read by new Date()
  run,        \* per invocation: position and local variables
  delivered,  \* per version: messages accepted by the messaging endpoint
  published   \* how often the changelog document has changed

workflowVars == <<kv, changelog, clock, run, delivered, published>>

\* one CircuitBreaker instance, the clock it reads, and its callers
VARIABLES
  state,            \* 'closed' | 'open' | 'half-open'
  failures,         \* this.failures
  lastFailureTime,  \* this.lastFailureTime
  now,              \* Date.now()
  pending,          \* wrapped functions invoked by execute and not yet settled
  calls,            \* execute calls made so far
  invoked,          \* wrapped functions invoked so far
  rejected,         \* execute calls rejected without invoking their function
  outcomes,         \* how the invoked functions settled, oldest first
  probes            \* execute calls that turned the breaker 'half-open'

breakerVars ==
  <<state, failures, lastFailureTime, now, pending, calls, invoked, rejected,
    outcomes, probes>>

\* one call of withRetry(fn, strategy)
VARIABLES
  wr                \* position, strategy, attempt, lastError and what happened

retryVars == <<wr>>

\* calls of sendTelegramNotification(config, message), one at a time
VARIABLES
  sn,               \* position, attempt, lastError, wire calls and waits
  rateLimitState,   \* lastRequestTime and requestCount of the module
  sendNow,          \* Date.now() as the sender reads it
  sends             \* calls of sendTelegramNotification so far

sendVars == <<sn, rateLimitState, sendNow, sends>>

\* overlapping callers of checkRateLimit, which share rateLimitState
VARIABLES
  acquirer,         \* per caller: position, the now it read, when it wakes
  passed            \* per time: calls of checkRateLimit that returned then

limiterVars == <<acquirer, passed>>

\* one evaluation of the comparator over three version strings
VARIABLES
  v1, v2, v3,       \* the arguments
  compared          \* what compareVersions returned for their pairs

comparatorVars == <<v1, v2, v3, compared>>

\* one call of parseChangelog(markdown)
VARIABLES
  markdown,         \* the document, line by line
  parsed            \* what parseChangelog returned or threw

parserVars == <<markdown, parsed>>

vars ==
  <<workflowVars, breakerVars, retryVars, sendVars, limiterVars,
    comparatorVars, parserVars>>

\* what the steps of the workflow leave alone
outsideWorkflow ==
  <<breakerVars, retryVars, sendVars, limiterVars, comparatorVars,
    parserVars>>

\* what the steps of the circuit breaker leave alone
outsideBreaker ==
  <<workflowVars, retryVars, sendVars, limiterVars, comparatorVars,
    parserVars>>

\* what the steps of withRetry leave alone
outsideRetry ==
  <<workflowVars, breakerVars, sendVars, limiterVars, comparatorVars,
    parserVars>>

\* what the steps of sendTelegramNotification leave alone
outsideSend ==
  <<workflowVars, breakerVars, retryVars, limiterVars, comparatorVars,
    parserVars>>

\* what the callers of checkRateLimit leave alone
outsideLimiter ==
  <<workflowVars, breakerVars, retryVars, sn, sends, comparatorVars,
    parserVars>>

\* what an evaluation of the comparator leaves alone
outsideComparator ==
  <<workflowVars, breakerVars, retryVars, sendVars, limiterVars, parserVars>>

\* what a call of parseChangelog leaves alone
outsideParser ==
  <<workflowVars, breakerVars, retryVars, sendVars, limiterVars,
    comparatorVars>>

\* circuitBreakers.storage = new CircuitBreaker(3, 10000, 'KV Storage')
Threshold == 3

Timeout == 10000

\* bounds of the breaker model: execute calls and clock advances
MaxCalls == 6

MaxTicks == 4

\* the clock advances in steps of half a timeout
TickLength == Timeout \div 2

BreakerInit ==
  /\ state = "closed"
  /\ failures = 0
  /\ lastFailureTime = 0
  /\ now = Timeout
  /\ pending = 0
  /\ calls = 0
  /\ invoked = 0
  /\ rejected = 0
  /\ outcomes = <<>>
  /\ probes = 0

\* no error: the initial lastError, and an argument that is not passed
NoError ==
  [kind |-> "undefined", code |-> "", status |-> 0, retryAfter |-> 0,
   id |-> 0]

\* new WorkerError(message, code, details): kind tells it from any other
\* thrown value, status and retryAfter are the fields of details (0 when
\* absent), id is the call that raised it
WorkerError(code, status, retryAfter) ==
  [kind |-> "WorkerError", code |-> code, status |-> status,
   retryAfter |-> retryAfter, id |-> 0]

IdleRetry ==
  [pc |-> "idle", strategy |-> "", attempt |-> 0, lastError |-> NoError,
   invocations |-> <<>>, sleeps |-> <<>>, returned |-> NoError,
   thrown |-> NoError]

RetryInit == wr = IdleRetry

IdleSend ==
  [pc |-> "idle", attempt |-> 0, lastError |-> NoError, wire |-> <<>>,
   waits |-> <<>>, thrown |-> NoError]

\* the module is loaded some time after the epoch, and nothing was sent yet
SendInit ==
  /\ sn = IdleSend
  /\ rateLimitState = [lastRequestTime |-> 0, requestCount |-> 0]
  /\ sendNow = 100000
  /\ sends = 0

\* the callers of checkRateLimit that may be in flight together
Acquirers == {1, 2}

IdleAcquirer == [pc |-> "idle", now |-> 0, wakeAt |-> 0]

LimiterInit ==
  /\ acquirer = [c \in Acquirers |-> IdleAcquirer]
  /\ passed = <<>>

IdleRun ==
  [pc |-> "idle", firstRun |-> FALSE, versionFromChangelog |-> NoVersion,
   currentState |-> NoRecord, updatedState |-> NoRecord,
   messageVersion |-> NoVersion, attempt |-> 0, result |-> "none",
   startState |-> NoRecord, sent |-> 0, callFailed |-> FALSE,
   overlapped |-> FALSE, fetches |-> 0, fetchError |-> NoError]

WorkflowInit ==
  /\ kv = NoRecord
  /\ changelog \in Pool
  /\ clock = 0
  /\ run = [r \in Runs |-> IdleRun]
  /\ delivered = [v \in Pool |-> 0]
  /\ published = 0

\* nothing has been compared
NotCompared == [v1v2 |-> 0, v2v1 |-> 0, v1v1 |-> 0, v2v3 |-> 0, v1v3 |-> 0,
                called |-> FALSE]

ComparatorIdle ==
  /\ v1 = V100 /\ v2 = V100 /\ v3 = V100
  /\ compared = NotCompared

\* parseChangelog has not been called
NotParsed ==
  [called |-> FALSE, thrown |-> "", versions |-> <<>>,
   latestVersion |-> NoVersion]

ParserIdle ==
  /\ markdown = <<>>
  /\ parsed = NotParsed

Init ==
  /\ WorkflowInit /\ BreakerInit /\ RetryInit /\ SendInit /\ LimiterInit
  /\ ComparatorIdle /\ ParserIdle

Set(r, rec) == run' = [run EXCEPT ![r] = rec]

\* the invocation is between its first step and its return
Active(r) == run[r].pc \notin {"idle", "done"}

\* invocations are interchangeable: a new one takes the first idle slot
FreeSlot(r) ==
  /\ run[r].pc = "idle"
  /\ \A q \in Runs : q < r => run[q].pc # "idle"

\* run r starts: it and every run in progress are marked as overlapping
Begin(r, rec) ==
  run' = [q \in Runs |->
            IF q = r THEN [rec EXCEPT !.overlapped = \E o \in Runs \ {r} : Active(o)]
            ELSE IF Active(q) THEN [run[q] EXCEPT !.overlapped = TRUE]
            ELSE run[q]]

\* variant: scheduled() logs the error and returns
ThrowSwallowed(rec, code) == [rec EXCEPT !.pc = "done", !.result = "ok"]

\* an error escapes to scheduled(), which logs and re-throws it
Throw(rec, code) == [rec EXCEPT !.pc = "done", !.result = code]

\* an external call (kv.get, kv.put, fetch) of this run has failed
Failed(rec) == [rec EXCEPT !.callFailed = TRUE]

\* scheduled(): createConfig, validateConfig and the VERSION_STORAGE check pass
Start(r, limit) ==
  /\ FreeSlot(r)
  /\ clock < limit
  /\ clock' = clock + 1
  /\ Begin(r, [IdleRun EXCEPT !.pc = "isFirstRun", !.startState = kv])
  /\ UNCHANGED <<kv, changelog, delivered, published>>
  /\ UNCHANGED outsideWorkflow

\* scheduled(): the configuration is invalid or the KV binding is missing
StartConfigError(r, limit) ==
  /\ FreeSlot(r)
  /\ clock < limit
  /\ clock' = clock + 1
  /\ Begin(r, [IdleRun EXCEPT !.pc = "done", !.result = "CONFIG_ERROR",
                              !.startState = kv])
  /\ UNCHANGED <<kv, changelog, delivered, published>>
  /\ UNCHANGED outsideWorkflow

\* variant: only a missing record makes a first run
IsFirstRunOkOnAbsenceOnly(r) ==
  /\ run[r].pc = "isFirstRun"
  /\ Set(r, [run[r] EXCEPT !.pc = "fetchChangelog",
                           !.firstRun = (kv.kind = "none")])
  /\ UNCHANGED <<kv, changelog, clock, delivered, published>>
  /\ UNCHANGED outsideWorkflow

\* isFirstRun: getState(kv, 0), one kv.get that answers
IsFirstRunOk(r) ==
  /\ run[r].pc = "isFirstRun"
  /\ Set(r, [run[r] EXCEPT !.pc = "fetchChangelog",
                           !.firstRun = ~isValidStorageState(kv)])
  /\ UNCHANGED <<kv, changelog, clock, delivered, published>>
  /\ UNCHANGED outsideWorkflow

\* isFirstRun: kv.get throws; with no retries the error is re-thrown
IsFirstRunFail(r) ==
  /\ run[r].pc = "isFirstRun"
  /\ Set(r, Throw(Failed(run[r]), "STORAGE_ERROR"))
  /\ UNCHANGED <<kv, changelog, clock, delivered, published>>
  /\ UNCHANGED outsideWorkflow

\* variant: the first run stamps the initial state as already notified
AfterFetchStampingNotification(r) ==
  IF run[r].firstRun
    THEN [run[r] EXCEPT !.pc = "initializeState",
                        !.versionFromChangelog = changelog,
                        !.attempt = 0,
                        !.updatedState = StorageState(changelog, clock, clock)]
    ELSE [run[r] EXCEPT !.pc = "getState",
                        !.versionFromChangelog = changelog,
                        !.attempt = 0]

\* after the changelog has been fetched and its latest version extracted
AfterFetch(r) ==
  IF run[r].firstRun
    THEN [run[r] EXCEPT !.pc = "initializeState",
                        !.versionFromChangelog = changelog,
                        !.attempt = 0,
                        !.updatedState = StorageState(changelog, clock, NoTime)]
    ELSE [run[r] EXCEPT !.pc = "getState",
                        !.versionFromChangelog = changelog,
                        !.attempt = 0]

\* handleStateInitialization: fetchChangelog and extractLatestVersion succeed
FetchChangelogOk(r) ==
  /\ run[r].pc = "fetchChangelog"
  /\ Set(r, [AfterFetch(r) EXCEPT !.fetches = @ + 1])
  /\ UNCHANGED <<kv, changelog, clock, delivered, published>>
  /\ UNCHANGED outsideWorkflow

\* what fetchChangelog and extractLatestVersion throw: no response (network
\* failure or timeout), a response that is not ok, or no version in the text
FetchFailures ==
  { WorkerError("FETCH_ERROR", 0, 0), WorkerError("FETCH_ERROR", 404, 0),
    WorkerError("FETCH_ERROR", 503, 0), WorkerError("PARSE_ERROR", 0, 0) }

\* handleStateInitialization: the fetch fails, or no version is extracted;
\* the error is logged and re-thrown
FetchChangelogFail(r) ==
  /\ run[r].pc = "fetchChangelog"
  /\ \E error \in FetchFailures :
       Set(r, Throw([Failed(run[r]) EXCEPT !.fetches = @ + 1,
                                          !.fetchError = error],
                    error.code))
  /\ UNCHANGED <<kv, changelog, clock, delivered, published>>
  /\ UNCHANGED outsideWorkflow

\* variant: the catch block retries once more before it gives up
RetryOrThrowInclusive(rec) ==
  IF rec.attempt <= StorageRetries
    THEN [rec EXCEPT !.attempt = @ + 1]
    ELSE Throw(rec, "STORAGE_ERROR")

\* the catch block of the retry loop in getState and setState: retry while
\* attempt < retries, otherwise throw the STORAGE_ERROR
RetryOrThrow(rec) ==
  IF rec.attempt < StorageRetries
    THEN [rec EXCEPT !.attempt = @ + 1]
    ELSE Throw(rec, "STORAGE_ERROR")

\* variant: updateStateAfterNotification keeps the version it has read
AfterGetStateKeepingVersion(rec) ==
  IF rec.pc = "getState"
    THEN [rec EXCEPT !.pc = "setState", !.attempt = 0, !.currentState = kv,
                     !.updatedState = [kv EXCEPT !.lastCheckTime = clock]]
    ELSE [rec EXCEPT !.pc = "setStateAfterNotification", !.attempt = 0,
                     !.updatedState = StorageState(kv.lastVersion, clock, clock)]

\* variant: the version check already stores the version it has detected
AfterGetStateAdvancingEarly(rec) ==
  IF rec.pc = "getState"
    THEN [rec EXCEPT !.pc = "setState", !.attempt = 0, !.currentState = kv,
                     !.updatedState =
                        [kv EXCEPT !.lastCheckTime = clock,
                                   !.lastVersion = rec.versionFromChangelog]]
    ELSE [rec EXCEPT !.pc = "setStateAfterNotification", !.attempt = 0,
                     !.updatedState =
                        StorageState(rec.versionFromChangelog, clock, clock)]

\* variant: the check-time update also stamps the notification time
AfterGetStateStampingCheck(rec) ==
  IF rec.pc = "getState"
    THEN [rec EXCEPT !.pc = "setState", !.attempt = 0, !.currentState = kv,
                     !.updatedState =
                        StorageState(kv.lastVersion, clock, clock)]
    ELSE [rec EXCEPT !.pc = "setStateAfterNotification", !.attempt = 0,
                     !.updatedState =
                        StorageState(rec.versionFromChangelog, clock, clock)]

\* what the caller of getState does with the state it obtained
AfterGetState(rec) ==
  IF rec.pc = "getState"
    THEN \* handleStateInitialization: {...currentState, lastCheckTime: now}
         [rec EXCEPT !.pc = "setState", !.attempt = 0, !.currentState = kv,
                     !.updatedState = [kv EXCEPT !.lastCheckTime = clock]]
    ELSE \* updateStateAfterNotification
         [rec EXCEPT !.pc = "setStateAfterNotification", !.attempt = 0,
                     !.updatedState =
                        StorageState(rec.versionFromChangelog, clock, clock)]

\* getState(kv) in handleStateInitialization and in
\* updateStateAfterNotification: one kv.get that answers
GetStateOk(r) ==
  /\ run[r].pc \in {"getState", "getStateAfterNotification"}
  /\ Set(r, IF kv.kind = "none"
              THEN \* null: "State should exist", "Cannot update state"
                   Throw(run[r], "STORAGE_ERROR")
            ELSE IF ~isValidStorageState(kv)
              THEN \* the validation error is thrown inside the retry loop
                   RetryOrThrow(run[r])
            ELSE AfterGetState(run[r]))
  /\ UNCHANGED <<kv, changelog, clock, delivered, published>>
  /\ UNCHANGED outsideWorkflow

\* getState: kv.get throws
GetStateFail(r) ==
  /\ run[r].pc \in {"getState", "getStateAfterNotification"}
  /\ Set(r, RetryOrThrow(Failed(run[r])))
  /\ UNCHANGED <<kv, changelog, clock, delivered, published>>
  /\ UNCHANGED outsideWorkflow

\* variant: the version check notifies whenever the versions differ
AfterSetStateOnAnyDifference(rec) ==
  IF rec.pc = "setState"
       /\ rec.currentState.lastVersion # rec.versionFromChangelog
    THEN [rec EXCEPT !.pc = "fetchDetails", !.attempt = 0]
    ELSE [rec EXCEPT !.pc = "done", !.result = "ok"]

\* what the caller of setState does once the state is stored
AfterSetState(rec) ==
  IF rec.pc = "setState"
       /\ isNewVersionAvailable(rec.currentState.lastVersion,
                                rec.versionFromChangelog)
    THEN \* performVersionCheck returns shouldNotify = true
         [rec EXCEPT !.pc = "fetchDetails", !.attempt = 0]
    ELSE \* first run, no new version, or state updated after notification
         [rec EXCEPT !.pc = "done", !.result = "ok"]

\* setState in initializeState, handleStateInitialization and
\* updateStateAfterNotification: one kv.put that succeeds
SetStateOk(r) ==
  /\ run[r].pc \in {"initializeState", "setState", "setStateAfterNotification"}
  /\ kv' = run[r].updatedState
  /\ Set(r, AfterSetState(run[r]))
  /\ UNCHANGED <<changelog, clock, delivered, published>>
  /\ UNCHANGED outsideWorkflow

\* setState: kv.put throws
SetStateFail(r) ==
  /\ run[r].pc \in {"initializeState", "setState", "setStateAfterNotification"}
  /\ Set(r, RetryOrThrow(Failed(run[r])))
  /\ UNCHANGED <<kv, changelog, clock, delivered, published>>
  /\ UNCHANGED outsideWorkflow

\* scheduled(): the second fetchChangelog and parseChangelog, whose
\* latestVersion becomes the message (createTelegramMessage)
FetchDetailsOk(r) ==
  /\ run[r].pc = "fetchDetails"
  /\ Set(r, [run[r] EXCEPT !.pc = "sendTelegramNotification", !.attempt = 0,
                           !.messageVersion = changelog])
  /\ UNCHANGED <<kv, changelog, clock, delivered, published>>
  /\ UNCHANGED outsideWorkflow

FetchDetailsFail(r) ==
  /\ run[r].pc = "fetchDetails"
  /\ \E code \in {"FETCH_ERROR", "PARSE_ERROR"} :
       Set(r, Throw(Failed(run[r]), code))
  /\ UNCHANGED <<kv, changelog, clock, delivered, published>>
  /\ UNCHANGED outsideWorkflow

\* sendTelegramNotification: a wire call that the API answers with ok
SendOk(r) ==
  /\ run[r].pc = "sendTelegramNotification"
  /\ delivered' = [delivered EXCEPT ![run[r].messageVersion] = @ + 1]
  /\ Set(r, [run[r] EXCEPT !.pc = "getStateAfterNotification", !.attempt = 0,
                           !.sent = @ + 1])
  /\ UNCHANGED <<kv, changelog, clock, published>>
  /\ UNCHANGED outsideWorkflow

\* sendTelegramNotification: a wire call that fails (network error, 4xx,
\* 429 or 5xx); every failure is retried while attempt < retries - 1
SendFail(r) ==
  /\ run[r].pc = "sendTelegramNotification"
  /\ Set(r, IF run[r].attempt < SendRetries - 1
              THEN [Failed(run[r]) EXCEPT !.attempt = @ + 1]
              ELSE Throw(Failed(run[r]), "API_ERROR"))
  /\ UNCHANGED <<kv, changelog, clock, delivered, published>>
  /\ UNCHANGED outsideWorkflow

\* scheduled() returns or re-throws; the invocation is over
Finish(r) ==
  /\ run[r].pc = "done"
  /\ Set(r, IdleRun)
  /\ UNCHANGED <<kv, changelog, clock, delivered, published>>
  /\ UNCHANGED outsideWorkflow

\* the maintainers edit the changelog document
Publish(limit) ==
  /\ published < limit
  /\ published' = published + 1
  /\ \E v \in Pool \ {changelog} : changelog' = v
  /\ UNCHANGED <<kv, clock, run, delivered>>
  /\ UNCHANGED outsideWorkflow

Step(r) ==
  \/ IsFirstRunOk(r) \/ IsFirstRunFail(r)
  \/ FetchChangelogOk(r) \/ FetchChangelogFail(r)
  \/ GetStateOk(r) \/ GetStateFail(r)
  \/ SetStateOk(r) \/ SetStateFail(r)
  \/ FetchDetailsOk(r) \/ FetchDetailsFail(r)
  \/ SendOk(r) \/ SendFail(r)
  \/ Finish(r)

\* non-overlapping invocations: one run at a time
Next ==
  \/ Start(1, MaxRuns) \/ StartConfigError(1, MaxRuns)
  \/ Step(1)
  \/ Publish(MaxPublish)

Spec == Init /\ [][Next]_vars

\* invocations that may overlap
NextConcurrent ==
  \/ \E r \in Runs :
       \/ Start(r, MaxOverlappingRuns)
       \/ StartConfigError(r, MaxOverlappingRuns)
       \/ Step(r)
  \/ Publish(MaxOverlappingPublish)

SpecConcurrent == Init /\ [][NextConcurrent]_vars

\* the maintainers add a release on top of the changelog document
PublishNewer(limit) ==
  /\ published < limit
  /\ published' = published + 1
  /\ \E v \in Pool :
       /\ compareVersions(v, changelog) > 0
       /\ changelog' = v
  /\ UNCHANGED <<kv, clock, run, delivered>>
  /\ UNCHANGED outsideWorkflow

\* invocations that may overlap, over a changelog that only grows
NextRising ==
  \/ \E r \in Runs :
       \/ Start(r, MaxOverlappingRuns)
       \/ StartConfigError(r, MaxOverlappingRuns)
       \/ Step(r)
  \/ PublishNewer(MaxOverlappingPublish)

SpecRising == Init /\ [][NextRising]_vars

\* a string that is not a semantic version
NotSemver == <<"l", "a", "t", "e", "s", "t">>

\* data under STORAGE_KEY that fails isValidStorageState
InvalidRecord ==
  [kind |-> "invalid", lastVersion |-> NoVersion, lastCheckTime |-> NoTime,
   lastNotificationTime |-> NoTime]

\* the record is rewritten from outside the worker: by data of another
\* shape, or by a state whose lastVersion is a string but no semantic
\* version (isValidStorageState asks for a string only)
Overwrite ==
  /\ kv.kind # "none"
  /\ \E data \in {InvalidRecord, [kv EXCEPT !.kind = "valid",
                                             !.lastVersion = NotSemver]} :
       /\ data # kv
       /\ kv' = data
  /\ UNCHANGED <<changelog, clock, run, delivered, published>>
  /\ UNCHANGED outsideWorkflow

\* the record outlives its expirationTtl (STATE_TTL) and is evicted
Expire ==
  /\ kv.kind # "none"
  /\ kv' = NoRecord
  /\ UNCHANGED <<changelog, clock, run, delivered, published>>
  /\ UNCHANGED outsideWorkflow

\* one run at a time over a store whose record may be rewritten or evicted
NextStore ==
  \/ Start(1, MaxStoreRuns) \/ StartConfigError(1, MaxStoreRuns)
  \/ Step(1)
  \/ Publish(MaxStorePublish)
  \/ Overwrite
  \/ Expire

SpecStore == Init /\ [][NextStore]_vars

(***************************************************************************)
(* The comparator as a function of its arguments: three version strings    *)
(* are drawn and compareVersions is applied to their pairs.                *)
(***************************************************************************)

\* what may follow the core of a version: nothing, a pre-release (numeric,
\* alphanumeric, mixed, upper case, with a hyphen inside, of two parts) or
\* build metadata
Suffixes ==
  { <<>>, <<"-", "1">>, <<"-", "2">>, <<"-", "1", "0">>, <<"-", "1", "a">>,
    <<"-", "a">>, <<"-", "B">>, <<"-", "a", ".", "1">>,
    <<"-", "a", "-", "a">>, <<"-", "a", "-", "b">>, <<"+", "b">> }

\* 01.0.0: a major component with a leading zero
V0100 == <<"0", "1", ".", "0", ".", "0">>

Versions ==
  {V100 \o suffix : suffix \in Suffixes} \cup {V110, V0100, NotSemver}

ComparatorInit ==
  /\ WorkflowInit /\ changelog = V100
  /\ BreakerInit /\ RetryInit /\ SendInit /\ LimiterInit /\ ParserIdle
  /\ v1 \in Versions /\ v2 \in Versions /\ v3 \in Versions
  /\ compared = NotCompared

\* compareVersions is called on the pairs of the three arguments
Compare ==
  /\ ~compared.called
  /\ compared' = [v1v2 |-> compareVersions(v1, v2),
                  v2v1 |-> compareVersions(v2, v1),
                  v1v1 |-> compareVersions(v1, v1),
                  v2v3 |-> compareVersions(v2, v3),
                  v1v3 |-> compareVersions(v1, v3),
                  called |-> TRUE]
  /\ UNCHANGED <<v1, v2, v3>>
  /\ UNCHANGED outsideComparator

NextComparator == Compare

SpecComparator == ComparatorInit /\ [][NextComparator]_vars

(***************************************************************************)
(* parseChangelog.  A document is a sequence of lines; a line is told by   *)
(* the patterns the parser applies to it: a version heading (it matches    *)
(* versionWithDateRegex and carries the version captured), a bullet, a     *)
(* level-3 sub-heading, any other text, or a blank line.                   *)
(***************************************************************************)

\* longest document
MaxLines == 4

Heading(version) == [kind |-> "version", version |-> version]

Line(kind) == [kind |-> kind, version |-> NoVersion]

Lines ==
  {Heading(version) : version \in Pool}
    \cup {Line("bullet"), Line("subheading"), Line("text"), Line("blank")}

\* all sequences over S of length at most n
SeqUpTo(S, n) == UNION {[1..k -> S] : k \in 0..n}

\* no version heading has been met yet
NoHeading == [version |-> NoVersion, changes |-> <<>>]

\* variant: a version is saved whether or not it has changes
SaveAlways(versions, currentVersion, currentChanges) ==
  IF currentVersion # NoHeading
    THEN Append(versions, [currentVersion EXCEPT !.changes = currentChanges])
    ELSE versions

\* if (currentVersion && currentChanges.length > 0): the version is pushed
Save(versions, currentVersion, currentChanges) ==
  IF currentVersion # NoHeading /\ Len(currentChanges) > 0
    THEN Append(versions, [currentVersion EXCEPT !.changes = currentChanges])
    ELSE versions

\* the loop over the lines, from line i on, and the save after the loop
RECURSIVE parseLines(_, _, _, _, _)
parseLines(lines, i, versions, currentVersion, currentChanges) ==
  IF i > Len(lines) THEN Save(versions, currentVersion, currentChanges)
  ELSE IF lines[i].kind = "version"
    THEN parseLines(lines, i + 1,
                    Save(versions, currentVersion, currentChanges),
                    [version |-> lines[i].version, changes |-> <<>>], <<>>)
  ELSE IF currentVersion # NoHeading
            /\ lines[i].kind \in {"bullet", "subheading"}
    THEN parseLines(lines, i + 1, versions, currentVersion,
                    Append(currentChanges, lines[i].kind))
  ELSE parseLines(lines, i + 1, versions, currentVersion, currentChanges)

\* parseChangelog(markdown): PARSE_ERROR for an empty document and for one
\* without a saved version, else the versions and the first of them
parseChangelog(lines) ==
  LET versions == parseLines(lines, 1, <<>>, NoHeading, <<>>)
  IN IF Len(lines) = 0 \/ Len(versions) = 0
       THEN [called |-> TRUE, thrown |-> "PARSE_ERROR", versions |-> <<>>,
             latestVersion |-> NoVersion]
       ELSE [called |-> TRUE, thrown |-> "", versions |-> versions,
             latestVersion |-> versions[1].version]

ParserInit ==
  /\ WorkflowInit /\ changelog = V100
  /\ BreakerInit /\ RetryInit /\ SendInit /\ LimiterInit /\ ComparatorIdle
  /\ markdown \in SeqUpTo(Lines, MaxLines)
  /\ parsed = NotParsed

\* parseChangelog is called on the document
Parse ==
  /\ ~parsed.called
  /\ parsed' = parseChangelog(markdown)
  /\ UNCHANGED markdown
  /\ UNCHANGED outsideParser

NextParser == Parse

SpecParser == ParserInit /\ [][NextParser]_vars

(***************************************************************************)
(* CircuitBreaker.  execute(fn) runs up to its await in one step (reject,  *)
(* or invoke fn); the settling of fn is a later step, so that calls may be *)
(* in flight together.                                                     *)
(***************************************************************************)

\* variant: the elapsed time is taken from the clock alone
TimeoutElapsedSinceZero == now >= Timeout

\* now - this.lastFailureTime >= this.timeout
TimeoutElapsed == now - lastFailureTime >= Timeout

\* execute while 'open' before the timeout: throws, fn is not invoked
ExecuteRejected ==
  /\ calls < MaxCalls
  /\ state = "open" /\ ~TimeoutElapsed
  /\ calls' = calls + 1
  /\ rejected' = rejected + 1
  /\ UNCHANGED <<state, failures, lastFailureTime, now, pending, invoked,
                 outcomes, probes>>
  /\ UNCHANGED outsideBreaker

\* execute while 'open' after the timeout: 'half-open', then fn is invoked
ExecuteProbe ==
  /\ calls < MaxCalls
  /\ state = "open" /\ TimeoutElapsed
  /\ state' = "half-open"
  /\ calls' = calls + 1
  /\ invoked' = invoked + 1
  /\ pending' = pending + 1
  /\ probes' = probes + 1
  /\ UNCHANGED <<failures, lastFailureTime, now, rejected, outcomes>>
  /\ UNCHANGED outsideBreaker

\* execute while 'closed' or 'half-open': fn is invoked
ExecuteInvoke ==
  /\ calls < MaxCalls
  /\ state # "open"
  /\ calls' = calls + 1
  /\ invoked' = invoked + 1
  /\ pending' = pending + 1
  /\ UNCHANGED <<state, failures, lastFailureTime, now, rejected, outcomes,
                 probes>>
  /\ UNCHANGED outsideBreaker

\* variant: a successful probe closes the breaker but keeps the count
FnResolvesKeepingFailures ==
  /\ pending > 0
  /\ pending' = pending - 1
  /\ state' = IF state = "half-open" THEN "closed" ELSE state
  /\ outcomes' = Append(outcomes, "resolved")
  /\ UNCHANGED <<failures, lastFailureTime, now, calls, invoked, rejected,
                 probes>>
  /\ UNCHANGED outsideBreaker

\* fn resolves: a 'half-open' breaker closes and forgets its failures
FnResolves ==
  /\ pending > 0
  /\ pending' = pending - 1
  /\ state' = IF state = "half-open" THEN "closed" ELSE state
  /\ failures' = IF state = "half-open" THEN 0 ELSE failures
  /\ outcomes' = Append(outcomes, "resolved")
  /\ UNCHANGED <<lastFailureTime, now, calls, invoked, rejected, probes>>
  /\ UNCHANGED outsideBreaker

\* variant: a failure is counted but the time of the last failure is kept
\* once it has been set
FnRejectsKeepingStamp ==
  /\ pending > 0
  /\ pending' = pending - 1
  /\ failures' = failures + 1
  /\ lastFailureTime' = IF lastFailureTime = 0 THEN now ELSE lastFailureTime
  /\ state' = IF failures + 1 >= Threshold THEN "open" ELSE state
  /\ outcomes' = Append(outcomes, "rejected")
  /\ UNCHANGED <<now, calls, invoked, rejected, probes>>
  /\ UNCHANGED outsideBreaker

\* fn rejects: the failure is counted and stamped, the breaker opens at the
\* threshold, and execute re-throws
FnRejects ==
  /\ pending > 0
  /\ pending' = pending - 1
  /\ failures' = failures + 1
  /\ lastFailureTime' = now
  /\ state' = IF failures + 1 >= Threshold THEN "open" ELSE state
  /\ outcomes' = Append(outcomes, "rejected")
  /\ UNCHANGED <<now, calls, invoked, rejected, probes>>
  /\ UNCHANGED outsideBreaker

\* variant: reset closes the breaker but keeps the failure count
resetKeepingFailures ==
  /\ lastFailureTime' = 0
  /\ state' = "closed"
  /\ UNCHANGED <<failures, now, pending, calls, invoked, rejected, outcomes,
                 probes>>
  /\ UNCHANGED outsideBreaker

\* CircuitBreaker.reset
reset ==
  /\ failures' = 0
  /\ lastFailureTime' = 0
  /\ state' = "closed"
  /\ UNCHANGED <<now, pending, calls, invoked, rejected, outcomes, probes>>
  /\ UNCHANGED outsideBreaker

\* time passes
Tick ==
  /\ now < Timeout + MaxTicks * TickLength
  /\ now' = now + TickLength
  /\ UNCHANGED <<state, failures, lastFailureTime, pending, calls, invoked,
                 rejected, outcomes, probes>>
  /\ UNCHANGED outsideBreaker

NextBreaker ==
  \/ ExecuteRejected \/ ExecuteProbe \/ ExecuteInvoke
  \/ FnResolves \/ FnRejects
  \/ reset
  \/ Tick

SpecBreaker == Init /\ [][NextBreaker]_vars

(***************************************************************************)
(* withRetry and the recovery strategies.  An error is a record: kind      *)
(* tells a WorkerError from any other thrown value, status and retryAfter  *)
(* are the fields of details (0 when absent), id is the invocation of fn   *)
(* that raised it.  The value fn resolves with is a record of the same     *)
(* shape, told apart by the invocation that produced it.                   *)
(***************************************************************************)

\* a thrown value that is not a WorkerError
OtherError ==
  [kind |-> "Error", code |-> "", status |-> 0, retryAfter |-> 0, id |-> 0]

\* the value the n-th invocation of fn resolves with
Value(n) ==
  [kind |-> "value", code |-> "", status |-> 0, retryAfter |-> 0, id |-> n]

\* what CircuitBreaker.execute throws while the breaker is open
CircuitOpen == WorkerError("UNKNOWN_ERROR", 0, 0)

\* the errors fn is made to raise
ErrorPool ==
  { WorkerError("FETCH_ERROR", 0, 0), WorkerError("FETCH_ERROR", 404, 0),
    WorkerError("FETCH_ERROR", 503, 0), WorkerError("API_ERROR", 400, 0),
    WorkerError("API_ERROR", 500, 0), WorkerError("RATE_LIMIT_ERROR", 0, 7),
    WorkerError("STORAGE_ERROR", 0, 0), WorkerError("PARSE_ERROR", 0, 0),
    CircuitOpen, OtherError }

Strategies ==
  {"default", "githubUnreachable", "changelogParsing", "telegramApi",
   "kvStorage", "makeResilient"}

Min(a, b) == IF a < b THEN a ELSE b

RECURSIVE shouldRetry(_, _, _)

\* strategy.shouldRetry(error, attempt); "makeResilient" is the strategy
\* that makeResilient builds when it is given none
shouldRetry(strategy, error, attempt) ==
  CASE strategy = "default" ->
         IF error.kind = "WorkerError"
         THEN error.code \notin {"CONFIG_ERROR", "VALIDATION_ERROR", "PARSE_ERROR"}
         ELSE attempt < 3
    [] strategy = "githubUnreachable" ->
         IF attempt >= 3 THEN FALSE
         ELSE IF error.kind = "WorkerError" /\ error.code = "FETCH_ERROR"
         THEN error.status = 0 \/ error.status >= 500
         ELSE FALSE
    [] strategy = "changelogParsing" -> FALSE
    [] strategy = "telegramApi" ->
         IF attempt >= 3 THEN FALSE
         ELSE IF error.kind # "WorkerError" THEN FALSE
         ELSE IF error.code = "RATE_LIMIT_ERROR" THEN TRUE
         ELSE IF error.code = "API_ERROR"
         THEN ~(error.status # 0 /\ error.status >= 400
                  /\ error.status < 500 /\ error.status # 429)
         ELSE FALSE
    [] strategy = "kvStorage" ->
         IF attempt >= 2 THEN FALSE
         ELSE error.kind = "WorkerError" /\ error.code = "STORAGE_ERROR"
    [] strategy = "makeResilient" ->
         IF error.kind # "WorkerError" THEN FALSE
         ELSE IF error.code = "FETCH_ERROR"
         THEN shouldRetry("githubUnreachable", error, attempt)
         ELSE IF error.code \in {"API_ERROR", "RATE_LIMIT_ERROR"}
         THEN shouldRetry("telegramApi", error, attempt)
         ELSE IF error.code = "STORAGE_ERROR"
         THEN shouldRetry("kvStorage", error, attempt)
         ELSE FALSE

RECURSIVE getRetryDelay(_, _, _)

\* strategy.getRetryDelay(attempt, error)
getRetryDelay(strategy, attempt, error) ==
  CASE strategy = "default" -> Min(2 ^ attempt * 1000, 10000)
    [] strategy = "githubUnreachable" -> Min(5000 * 2 ^ attempt, 20000)
    [] strategy = "changelogParsing" -> 0
    [] strategy = "telegramApi" ->
         IF error.kind = "WorkerError" /\ error.code = "RATE_LIMIT_ERROR"
              /\ error.retryAfter # 0
         THEN error.retryAfter * 1000
         ELSE Min(2 ^ attempt * 1000, 10000)
    [] strategy = "kvStorage" -> (attempt + 1) * 1000
    [] strategy = "makeResilient" ->
         IF error.kind # "WorkerError" THEN 1000
         ELSE IF error.code = "FETCH_ERROR"
         THEN getRetryDelay("githubUnreachable", attempt, NoError)
         ELSE IF error.code \in {"API_ERROR", "RATE_LIMIT_ERROR"}
         THEN getRetryDelay("telegramApi", attempt, error)
         ELSE IF error.code = "STORAGE_ERROR"
         THEN getRetryDelay("kvStorage", attempt, NoError)
         ELSE 1000

\* variant: every strategy allows two attempts
maxAttemptsOfTwo(strategy) == 2

maxAttempts(strategy) ==
  CASE strategy = "default" -> 3
    [] strategy = "githubUnreachable" -> 3
    [] strategy = "changelogParsing" -> 1
    [] strategy = "telegramApi" -> 3
    [] strategy = "kvStorage" -> 2
    [] strategy = "makeResilient" -> 3

\* variant: the loop runs while attempt <= maxAttempts
LoopContinuesInclusive(rec) == rec.attempt <= maxAttempts(rec.strategy)

\* the loop condition: attempt < strategy.maxAttempts
LoopContinues(rec) == rec.attempt < maxAttempts(rec.strategy)

\* the head of the for loop: invoke fn, or leave the loop and throw lastError
LoopHead(rec) ==
  IF LoopContinues(rec)
  THEN [rec EXCEPT !.pc = "fn"]
  ELSE [rec EXCEPT !.pc = "thrown", !.thrown = rec.lastError]

\* variant: the catch block retries whatever shouldRetry says
AfterCatchAlwaysRetrying(rec, error) ==
  LET caught == [rec EXCEPT !.lastError = error] IN
  [caught EXCEPT !.pc = "sleep",
     !.sleeps = Append(@, getRetryDelay(rec.strategy, rec.attempt, NoError))]

\* the catch block: lastError = error, then sleep getRetryDelay(attempt) when
\* shouldRetry(error, attempt), else break and throw lastError
AfterCatch(rec, error) ==
  LET caught == [rec EXCEPT !.lastError = error] IN
  IF shouldRetry(rec.strategy, error, rec.attempt)
  THEN [caught EXCEPT !.pc = "sleep",
          !.sleeps = Append(@, getRetryDelay(rec.strategy, rec.attempt, NoError))]
  ELSE [caught EXCEPT !.pc = "thrown", !.thrown = error]

\* withRetry(fn, strategy) is called: attempt = 0 and the loop is entered
withRetry(strategy) ==
  /\ wr.pc = "idle"
  /\ wr' = LoopHead([IdleRetry EXCEPT !.strategy = strategy])
  /\ UNCHANGED outsideRetry

\* fn resolves: withRetry returns its result
FnReturns ==
  /\ wr.pc = "fn"
  /\ LET result == Value(Len(wr.invocations) + 1)
     IN wr' = [wr EXCEPT !.pc = "returned",
                         !.invocations = Append(@, result),
                         !.returned = result]
  /\ UNCHANGED outsideRetry

\* fn rejects with error e
FnThrows(e) ==
  /\ wr.pc = "fn"
  /\ LET error == [e EXCEPT !.id = Len(wr.invocations) + 1]
         called == [wr EXCEPT !.invocations = Append(@, error)]
     IN wr' = AfterCatch(called, error)
  /\ UNCHANGED outsideRetry

\* the timer of the sleep fires: attempt++ and back to the loop condition
Wake ==
  /\ wr.pc = "sleep"
  /\ wr' = LoopHead([wr EXCEPT !.attempt = @ + 1])
  /\ UNCHANGED outsideRetry

NextRetry ==
  \/ \E strategy \in Strategies : withRetry(strategy)
  \/ FnReturns
  \/ \E e \in ErrorPool : FnThrows(e)
  \/ Wake

SpecRetry == Init /\ [][NextRetry]_vars

(***************************************************************************)
(* sendTelegramNotification.  One step per await: the rate limit check,    *)
(* the wire call with the handling of its answer, and the wait before the  *)
(* next attempt.                                                           *)
(***************************************************************************)

\* bounds of the sender model: calls, and minutes that pass between calls
MaxSends == 2

MaxMinutes == 2

\* checkRateLimit: max 20 requests per minute
RateLimit == 20

RateWindow == 60000

\* retry_after || 60
DefaultRetryAfter == 60

\* what the messaging API answers to a wire call: status 0 is a fetch that
\* throws, ok is the ok field of the body, retryAfter is
\* parameters.retry_after (0 when absent)
Response(status, ok, retryAfter) ==
  [status |-> status, ok |-> ok, retryAfter |-> retryAfter]

Responses ==
  { Response(200, TRUE, 0), Response(200, FALSE, 0), Response(400, FALSE, 0),
    Response(403, FALSE, 0), Response(429, FALSE, 7), Response(429, FALSE, 0),
    Response(500, FALSE, 0), Response(0, FALSE, 0) }

\* the error the try block raises for an answer that is not a success
ErrorOf(resp) ==
  IF resp.status = 0 THEN OtherError
  ELSE IF resp.status = 429
  THEN WorkerError("RATE_LIMIT_ERROR", 0,
                   IF resp.retryAfter # 0 THEN resp.retryAfter
                   ELSE DefaultRetryAfter)
  ELSE IF resp.status # 200
  THEN WorkerError("API_ERROR", resp.status, 0)
  ELSE WorkerError("API_ERROR", 0, 0)

\* variant: the wait is always the exponential backoff
RetryWaitBackoffOnly(error, attempt) == Min(2 ^ attempt * 1000, 10000)

\* the delay computed in the catch block
RetryWait(error, attempt) ==
  IF error.kind = "WorkerError" /\ error.code = "RATE_LIMIT_ERROR"
  THEN (IF error.retryAfter # 0 THEN error.retryAfter
        ELSE DefaultRetryAfter) * 1000
  ELSE Min(2 ^ attempt * 1000, 10000)

\* after the loop: a WorkerError is re-thrown, anything else is wrapped
FinalError(error) ==
  IF error.kind = "WorkerError" THEN error
  ELSE WorkerError("API_ERROR", 0, 0)

\* the catch block for the error of attempt rec.attempt: wait when this is
\* not the last attempt, else leave the loop and throw
AfterSendCatch(rec, error) ==
  LET caught == [rec EXCEPT !.lastError = error] IN
  IF rec.attempt < SendRetries - 1
  THEN [caught EXCEPT !.pc = "wait",
          !.waits = Append(@, RetryWait(error, rec.attempt))]
  ELSE [caught EXCEPT !.pc = "thrown", !.attempt = @ + 1,
          !.thrown = FinalError(error)]

\* sendTelegramNotification is called with a valid config and message
sendTelegramNotification ==
  /\ sn.pc = "idle"
  /\ sends < MaxSends
  /\ sends' = sends + 1
  /\ sn' = [IdleSend EXCEPT !.pc = "checkRateLimit"]
  /\ UNCHANGED <<rateLimitState, sendNow>>
  /\ UNCHANGED outsideSend

\* validateConfig or the message check throws before the loop
sendInvalid ==
  /\ sn.pc = "idle"
  /\ sends < MaxSends
  /\ sends' = sends + 1
  /\ \E code \in {"CONFIG_ERROR", "VALIDATION_ERROR"} :
       sn' = [IdleSend EXCEPT !.pc = "thrown",
                              !.thrown = WorkerError(code, 0, 0)]
  /\ UNCHANGED <<rateLimitState, sendNow>>
  /\ UNCHANGED outsideSend

\* checkRateLimit, with its sleep when the counter is at the limit
checkRateLimit ==
  /\ sn.pc = "checkRateLimit"
  /\ LET minuteAgo == sendNow - RateWindow
         counted == IF rateLimitState.lastRequestTime < minuteAgo
                    THEN 0 ELSE rateLimitState.requestCount
         waitTime == RateWindow - (sendNow - rateLimitState.lastRequestTime)
         waits == counted >= RateLimit /\ waitTime > 0
     IN /\ rateLimitState' =
             [lastRequestTime |-> sendNow,
              requestCount |-> (IF waits THEN 0 ELSE counted) + 1]
        /\ sendNow' = IF waits THEN sendNow + waitTime ELSE sendNow
  /\ sn' = [sn EXCEPT !.pc = "wire"]
  /\ UNCHANGED sends
  /\ UNCHANGED outsideSend

\* the wire call is answered (or fetch throws) and the answer is handled
WireAnswers(resp) ==
  /\ sn.pc = "wire"
  /\ LET called == [sn EXCEPT !.wire = Append(@, resp)]
     IN sn' = IF resp.status = 200 /\ resp.ok
              THEN [called EXCEPT !.pc = "returned"]
              ELSE AfterSendCatch(called, ErrorOf(resp))
  /\ UNCHANGED <<rateLimitState, sendNow, sends>>
  /\ UNCHANGED outsideSend

\* the wait before the next attempt is over
WaitOver ==
  /\ sn.pc = "wait"
  /\ sendNow' = sendNow + sn.waits[Len(sn.waits)]
  /\ sn' = [sn EXCEPT !.pc = "checkRateLimit", !.attempt = @ + 1]
  /\ UNCHANGED <<rateLimitState, sends>>
  /\ UNCHANGED outsideSend

\* the caller has the outcome of the send
SendSettles ==
  /\ sn.pc \in {"returned", "thrown"}
  /\ sends < MaxSends
  /\ sn' = IdleSend
  /\ UNCHANGED <<rateLimitState, sendNow, sends>>
  /\ UNCHANGED outsideSend

\* a minute passes between two sends
MinutePasses ==
  /\ sn.pc = "idle"
  /\ sendNow < 100000 + MaxMinutes * RateWindow
  /\ sendNow' = sendNow + RateWindow
  /\ UNCHANGED <<sn, rateLimitState, sends>>
  /\ UNCHANGED outsideSend

NextSend ==
  \/ sendTelegramNotification
  \/ sendInvalid
  \/ checkRateLimit
  \/ \E resp \in Responses : WireAnswers(resp)
  \/ WaitOver
  \/ SendSettles
  \/ MinutePasses

SpecSend == Init /\ [][NextSend]_vars

(***************************************************************************)
(* checkRateLimit with callers in flight together.  A call runs to its     *)
(* await (the sleep) in one step and from the timer to its return in       *)
(* another; a call that does not sleep runs to its return in one step.     *)
(* passed is the sequence of the times at which calls returned.            *)
(***************************************************************************)

\* bounds of the limiter model: calls of checkRateLimit, and how far the
\* clock runs past one window
MaxAcquires == 42

MaxLimiterMs == 1

StartTime == 100000

\* the instants at which calls are made: when the module is loaded, one
\* window later, and shortly after that
Instants ==
  {StartTime, StartTime + RateWindow, StartTime + RateWindow + MaxLimiterMs}

\* callers are interchangeable: a new call is made by the first idle one
FirstIdle(c) ==
  /\ acquirer[c].pc = "idle"
  /\ \A d \in Acquirers : d < c => acquirer[d].pc # "idle"

\* the counter as the call finds it: reset when the last request is more
\* than a minute old
CountFound(t) ==
  IF rateLimitState.lastRequestTime < t - RateWindow
  THEN 0 ELSE rateLimitState.requestCount

\* 60000 - (now - rateLimitState.lastRequestTime)
WaitTime(t) == RateWindow - (t - rateLimitState.lastRequestTime)

Sleeping == {c \in Acquirers : acquirer[c].pc = "sleeping"}

\* checkRateLimit is called and returns without sleeping
AcquirePasses(c) ==
  /\ FirstIdle(c)
  /\ Len(passed) + Cardinality(Sleeping) < MaxAcquires
  /\ ~(CountFound(sendNow) >= RateLimit /\ WaitTime(sendNow) > 0)
  /\ rateLimitState' = [lastRequestTime |-> sendNow,
                        requestCount |-> CountFound(sendNow) + 1]
  /\ passed' = Append(passed, sendNow)
  /\ UNCHANGED <<acquirer, sendNow>>
  /\ UNCHANGED outsideLimiter

\* checkRateLimit is called at the limit: the counter reset by age is
\* stored, and the call sleeps for waitTime
AcquireSleeps(c) ==
  /\ FirstIdle(c)
  /\ Len(passed) + Cardinality(Sleeping) < MaxAcquires
  /\ CountFound(sendNow) >= RateLimit /\ WaitTime(sendNow) > 0
  /\ rateLimitState' = [rateLimitState EXCEPT
                          !.requestCount = CountFound(sendNow)]
  /\ acquirer' = [acquirer EXCEPT
                    ![c] = [pc |-> "sleeping", now |-> sendNow,
                            wakeAt |-> sendNow + WaitTime(sendNow)]]
  /\ UNCHANGED <<passed, sendNow>>
  /\ UNCHANGED outsideLimiter

\* the timer fires: requestCount = 0, then lastRequestTime = now (the value
\* read before the sleep) and requestCount++, and the call returns
AcquireWakes(c) ==
  /\ acquirer[c].pc = "sleeping"
  /\ sendNow >= acquirer[c].wakeAt
  /\ rateLimitState' = [lastRequestTime |-> acquirer[c].now,
                        requestCount |-> 1]
  /\ passed' = Append(passed, sendNow)
  /\ acquirer' = [acquirer EXCEPT ![c] = IdleAcquirer]
  /\ UNCHANGED sendNow
  /\ UNCHANGED outsideLimiter

\* time passes up to the next instant, and not past a timer that is due
LimiterTimePasses ==
  /\ \E t \in Instants :
       /\ t > sendNow
       /\ \A u \in Instants : u > sendNow => t <= u
       /\ \A c \in Sleeping : sendNow < acquirer[c].wakeAt
       /\ sendNow' = t
  /\ UNCHANGED <<rateLimitState, acquirer, passed>>
  /\ UNCHANGED outsideLimiter

NextLimiter ==
  \/ \E c \in Acquirers :
       AcquirePasses(c) \/ AcquireSleeps(c) \/ AcquireWakes(c)
  \/ LimiterTimePasses

SpecLimiter == Init /\ [][NextLimiter]_vars

TypeOK ==
  /\ kv.kind \in {"none", "valid", "invalid"}
  /\ changelog \in Pool
  /\ clock \in 0..Max(MaxRuns, MaxOverlappingRuns)
  /\ state \in {"closed", "open", "half-open"}
  /\ failures \in 0..MaxCalls
  /\ pending \in 0..MaxCalls
  /\ invoked + rejected = calls
  /\ Len(outcomes) + pending = invoked

(***************************************************************************)
(* Properties of the workflow.  A run is judged in the state where it has  *)
(* ended (pc = "done"): startState is the record it found when it started, *)
(* result is "ok" when scheduled() returned and an error code when it      *)
(* re-threw.                                                               *)
(***************************************************************************)

Ended(r) == run[r].pc = "done"

\* the run has fetched the changelog and extracted its latest version
Extracted(r) == run[r].versionFromChangelog # NoVersion

\* C1: a run that starts with no persisted state and extracts version V sends
\* no notification; when it returns, the persisted state has lastVersion = V
\* and no lastNotificationTime (when its write fails, nothing is persisted)
C1_FirstRunInitialises ==
  \A r \in Runs :
    (Ended(r) /\ run[r].startState.kind = "none" /\ Extracted(r)) =>
      /\ run[r].sent = 0
      /\ run[r].result = "ok" =>
           /\ kv.kind = "valid"
           /\ kv.lastVersion = run[r].versionFromChangelog
           /\ kv.lastNotificationTime = NoTime
      /\ run[r].result # "ok" => kv = NoRecord

C1_Witness ==
  /\ Ended(1) /\ run[1].startState.kind = "none" /\ run[1].result = "ok"
  /\ kv = StorageState(V110, clock, NoTime)

\* C2: a run that finds lastVersion = P, extracts a strictly newer L and
\* dispatches the notification returns with lastVersion = L and
\* lastNotificationTime set
C2_AdvanceAfterDispatch ==
  \A r \in Runs :
    (Ended(r) /\ run[r].result = "ok" /\ run[r].startState.kind = "valid"
       /\ run[r].sent > 0) =>
      /\ isNewVersionAvailable(run[r].startState.lastVersion,
                               run[r].versionFromChangelog)
      /\ kv.kind = "valid"
      /\ kv.lastVersion = run[r].versionFromChangelog
      /\ kv.lastNotificationTime # NoTime

C2_Witness ==
  /\ Ended(1) /\ run[1].result = "ok" /\ run[1].sent = 1
  /\ run[1].startState.kind = "valid" /\ run[1].startState.lastVersion = V100
  /\ run[1].messageVersion = V110
  /\ kv.lastVersion = V110 /\ kv.lastNotificationTime = clock

\* the dispatch of the run has failed after exhausting its retries
DispatchFailed(r) == Ended(r) /\ run[r].result = "API_ERROR"

\* C3: when the dispatch of a strictly newer L fails after its retries, the
\* run ends with lastVersion still P, and L is still new with respect to it
C3_DispatchFailureKeepsVersion ==
  \A r \in Runs :
    DispatchFailed(r) =>
      /\ run[r].sent = 0
      /\ kv.kind = "valid"
      /\ kv.lastVersion = run[r].startState.lastVersion
      /\ isNewVersionAvailable(kv.lastVersion, run[r].versionFromChangelog)

C3_Witness ==
  /\ DispatchFailed(1) /\ run[1].attempt = SendRetries - 1
  /\ run[1].startState.lastVersion = V100 /\ run[1].versionFromChangelog = V110
  /\ kv.lastVersion = V100

\* C4: when the extracted version is not strictly newer than lastVersion,
\* the run sends nothing and changes, of the persisted fields, at most
\* lastCheckTime
C4_NoChangeOnlyTouchesCheckTime ==
  \A r \in Runs :
    (Ended(r) /\ run[r].startState.kind = "valid" /\ Extracted(r)
       /\ compareVersions(run[r].versionFromChangelog,
                          run[r].startState.lastVersion) <= 0) =>
      /\ run[r].sent = 0
      /\ kv = [run[r].startState EXCEPT !.lastCheckTime = kv.lastCheckTime]

C4_Witness ==
  /\ Ended(1) /\ run[1].result = "ok" /\ run[1].startState.kind = "valid"
  /\ compareVersions(run[1].versionFromChangelog,
                     run[1].startState.lastVersion) < 0
  /\ kv.lastCheckTime # run[1].startState.lastCheckTime
  /\ kv.lastVersion = run[1].startState.lastVersion

\* C5: a write that gives an existing record a different lastVersion is the
\* state update of a run that has dispatched the notification for that
\* version, or the initialisation of a first run
C5_VersionChangesOnlyAfterItsNotification ==
  [][(kv.kind = "valid" /\ kv'.kind = "valid"
        /\ kv'.lastVersion # kv.lastVersion) =>
       \E r \in Runs :
         \/ run[r].pc = "initializeState"
         \/ /\ run[r].pc = "setStateAfterNotification"
            /\ run[r].sent > 0
            /\ run[r].messageVersion = kv'.lastVersion]_vars

\* C6: no version is delivered to the messaging endpoint more than once
C6_NoDuplicateNotification == \A v \in Pool : delivered[v] <= 1

\* C7: a run that ends with an error has delivered no notification
C7_FailedRunDeliversNothing ==
  \A r \in Runs : (Ended(r) /\ run[r].result # "ok") => run[r].sent = 0

\* the changelog showed the same latest version to both fetches of the run
ChangelogStable(r) ==
  run[r].messageVersion \in {NoVersion, run[r].versionFromChangelog}

\* C8: whatever the earlier runs left behind, a run in which no external
\* call fails and which finds L strictly newer than lastVersion delivers the
\* notification for L once and returns with lastVersion = L
C8_SuccessfulRunNotifies ==
  \A r \in Runs :
    (Ended(r) /\ ~run[r].callFailed /\ run[r].startState.kind = "valid"
       /\ Extracted(r) /\ ChangelogStable(r)
       /\ compareVersions(run[r].versionFromChangelog,
                          run[r].startState.lastVersion) = 1) =>
      /\ run[r].result = "ok"
      /\ run[r].sent = 1
      /\ run[r].messageVersion = run[r].versionFromChangelog
      /\ delivered[run[r].versionFromChangelog] >= 1
      /\ kv = StorageState(run[r].versionFromChangelog, clock, clock)

\* a successful run that follows a run which delivered V110 and then failed
C8_Witness ==
  /\ Ended(1) /\ ~run[1].callFailed /\ run[1].result = "ok"
  /\ run[1].startState.kind = "valid" /\ run[1].startState.lastVersion = V100
  /\ run[1].startState.lastNotificationTime = NoTime
  /\ run[1].versionFromChangelog = V110 /\ run[1].messageVersion = V110
  /\ delivered[V110] = 2
  /\ kv.lastVersion = V110

\* the versions delivered by the runs that have ended
DeliveredByEndedRuns ==
  {run[r].messageVersion : r \in {q \in Runs : Ended(q) /\ run[q].sent > 0}}

\* C9: once two overlapping runs have both returned, lastVersion is the
\* newest version that they have delivered (stated for runs each of which
\* saw a single changelog version, so that only the interleaving matters)
C9_OverlappingRunsKeepNewestDelivered ==
  (\A r \in Runs : /\ Ended(r) /\ run[r].result = "ok" /\ run[r].overlapped
                   /\ ChangelogStable(r)) =>
    \A v \in DeliveredByEndedRuns :
      /\ kv.kind = "valid"
      /\ kv.lastVersion \in DeliveredByEndedRuns
      /\ compareVersions(kv.lastVersion, v) >= 0

\* C10: the failure that brings the count to the threshold opens the
\* breaker, and an execute call made while it is open and less than the
\* timeout has passed since the last failure is rejected: no function is
\* invoked and state, count and failure time stay as they are
C10_OpenBreakerRejects ==
  [][/\ (failures' > failures /\ failures' >= Threshold) => state' = "open"
     /\ (calls' = calls + 1 /\ state = "open"
           /\ now - lastFailureTime < Timeout) =>
          /\ rejected' = rejected + 1
          /\ invoked' = invoked /\ pending' = pending
          /\ state' = state /\ failures' = failures
          /\ lastFailureTime' = lastFailureTime]_vars

\* a call has been rejected by a breaker opened by Threshold failures, at a
\* time later than the failure but within the timeout
C10_Witness ==
  /\ state = "open" /\ failures = Threshold /\ invoked = Threshold
  /\ rejected > 0 /\ pending = 0
  /\ now > lastFailureTime /\ now - lastFailureTime < Timeout

\* the function of an execute call settles in this step
Resolved == outcomes' = Append(outcomes, "resolved")

Rejected == outcomes' = Append(outcomes, "rejected")

\* the last n settled functions all failed
LastFailed(seq, n) ==
  /\ Len(seq) >= n
  /\ \A i \in (Len(seq) - n + 1)..Len(seq) : seq[i] = "rejected"

\* C11: an execute call that finds the breaker open after the timeout
\* invokes its function as the probe, and for as long as the breaker is
\* half-open (the probe has not settled) no other function is invoked
C11_SingleProbeInFlight ==
  [][/\ (calls' = calls + 1 /\ state = "open"
           /\ now - lastFailureTime >= Timeout) =>
          (invoked' = invoked + 1 /\ state' = "half-open")
     /\ state = "half-open" => invoked' = invoked]_vars

\* C12: a function that resolves while the breaker is half-open leaves it
\* closed with a failure count of 0, and an execute call that finds the
\* breaker closed invokes its function
C12_ProbeSuccessCloses ==
  [][/\ (state = "half-open" /\ Resolved) =>
          (state' = "closed" /\ failures' = 0)
     /\ (state = "closed" /\ calls' = calls + 1) =>
          (invoked' = invoked + 1 /\ rejected' = rejected)]_vars

\* Threshold failures opened the breaker, the probe after the timeout
\* succeeded and closed it, and the next call has invoked its function
C12_Witness ==
  /\ outcomes = [i \in 1..(Threshold + 1) |->
                   IF i <= Threshold THEN "rejected" ELSE "resolved"]
  /\ state = "closed" /\ failures = 0 /\ lastFailureTime > 0
  /\ now - lastFailureTime >= Timeout
  /\ rejected = 0 /\ invoked = Threshold + 2 /\ pending = 1

\* C13: whenever the function of an execute call resolves, the failure
\* count is 0 and the breaker is closed afterwards
C13_SuccessResetsCount ==
  [][Resolved => (failures' = 0 /\ state' = "closed")]_vars

\* C14: a closed breaker opens only when the last Threshold settled
\* functions all failed
C14_OpensOnConsecutiveFailures ==
  [][(state = "closed" /\ state' = "open") =>
       LastFailed(outcomes', Threshold)]_vars

(***************************************************************************)
(* Properties of withRetry.                                                *)
(***************************************************************************)

\* the invocations of fn made so far that failed
AllFailed(seq) == \A i \in 1..Len(seq) : seq[i].kind # "value"

\* C15: fn is invoked at most maxAttempts times and never after an
\* invocation that succeeded; withRetry returns exactly when an invocation
\* succeeds, with the value of that invocation; once maxAttempts invocations
\* have failed fn is not invoked again, and when withRetry throws every
\* invocation has failed and an error is thrown
C15_AtMostMaxAttempts ==
  LET n == Len(wr.invocations) IN
  wr.pc # "idle" =>
    /\ n <= maxAttempts(wr.strategy)
    /\ \A i \in 1..(n - 1) : wr.invocations[i].kind # "value"
    /\ wr.pc = "returned" <=> (n > 0 /\ wr.invocations[n].kind = "value")
    /\ wr.pc = "returned" => wr.returned = wr.invocations[n]
    /\ (n = maxAttempts(wr.strategy) /\ AllFailed(wr.invocations)) =>
         wr.pc \in {"sleep", "thrown"}
    /\ wr.pc = "thrown" =>
         (AllFailed(wr.invocations) /\ wr.thrown.kind # "undefined")

\* the last permitted invocation succeeded after the earlier ones failed
C15_Witness ==
  /\ wr.pc = "returned"
  /\ Len(wr.invocations) = maxAttempts(wr.strategy)
  /\ Len(wr.invocations) = 3
  /\ wr.returned = Value(3)

\* C16: when the last invocation of fn failed with an error for which
\* shouldRetry(error, attempt) is false, withRetry has thrown that very
\* error, without a further invocation and without a sleep after it
C16_NoRetryPropagatesUnchanged ==
  LET n == Len(wr.invocations) IN
  (/\ n > 0
   /\ wr.invocations[n].kind # "value"
   /\ ~shouldRetry(wr.strategy, wr.invocations[n], n - 1)) =>
    /\ wr.pc = "thrown"
    /\ wr.thrown = wr.invocations[n]
    /\ Len(wr.sleeps) = n - 1

\* a first failure was retried, the second one was not
C16_Witness ==
  /\ wr.pc = "thrown"
  /\ Len(wr.invocations) = 2 /\ Len(wr.sleeps) = 1
  /\ Len(wr.invocations) < maxAttempts(wr.strategy)
  /\ ~shouldRetry(wr.strategy, wr.invocations[2], 1)
  /\ wr.thrown.id = 2

\* C17: a run that fails because the changelog fetch of the version check
\* raised an error that githubUnreachable.shouldRetry accepts (no response,
\* or a status of 500 and above) has made three fetch attempts
C17_RetryableFetchExhausted ==
  \A r \in Runs :
    (/\ Ended(r)
     /\ run[r].fetchError # NoError
     /\ shouldRetry("githubUnreachable", run[r].fetchError, 0)) =>
      run[r].fetches = 3

(***************************************************************************)
(* Properties of sendTelegramNotification.                                 *)
(***************************************************************************)

\* a 4xx answer other than 429
ClientError(resp) ==
  resp.status >= 400 /\ resp.status < 500 /\ resp.status # 429

\* a 5xx or 429 answer
ServerOrRateLimit(resp) == resp.status >= 500 \/ resp.status = 429

\* C18: no wire call follows a 4xx answer other than 429 (the send has
\* thrown that error); at most 3 wire calls are made, and a send that throws
\* on a 5xx or 429 answer has made all 3
C18_ClientErrorNotRetried ==
  LET n == Len(sn.wire) IN
  /\ n <= SendRetries
  /\ \A i \in 1..n :
       ClientError(sn.wire[i]) =>
         (i = n /\ sn.pc = "thrown" /\ sn.thrown = ErrorOf(sn.wire[i]))
  /\ (sn.pc = "thrown" /\ n > 0 /\ ServerOrRateLimit(sn.wire[n])) =>
       n = SendRetries

\* C19: the wait after a 429 answer that carries retry_after = r is r
\* seconds, and there is a wait after every failed attempt but the last
C19_RetryAfterHonoured ==
  LET n == Len(sn.wire) IN
  /\ Len(sn.waits) <= SendRetries - 1
  /\ Len(sn.waits) <= n
  /\ \A i \in 1..n :
       (i < SendRetries /\ sn.wire[i].status = 429
          /\ sn.wire[i].retryAfter # 0) =>
         (Len(sn.waits) >= i /\ sn.waits[i] = sn.wire[i].retryAfter * 1000)

\* three 429 answers with retry_after = 7: two waits of 7 s, none after the
\* last attempt
C19_Witness ==
  /\ sn.pc = "thrown"
  /\ sn.wire = <<Response(429, FALSE, 7), Response(429, FALSE, 7),
                 Response(429, FALSE, 7)>>
  /\ sn.waits = <<7000, 7000>>
  /\ sn.thrown.code = "RATE_LIMIT_ERROR"

\* C20: a wire call is made only after the rate limiter has counted it and
\* inside a call of the circuit breaker's execute (a wrapped function is in
\* flight), never while the breaker is open and its timeout has not elapsed
C20_SendThroughBreaker ==
  [][Len(sn'.wire) > Len(sn.wire) =>
       /\ rateLimitState.requestCount >= 1
       /\ pending > 0
       /\ ~(state = "open" /\ now - lastFailureTime < Timeout)]_vars

(***************************************************************************)
(* Properties of the rate limiter.                                         *)
(***************************************************************************)

\* the calls that returned in the 60 seconds that end at time t
PassedInWindow(t) ==
  Cardinality({i \in 1..Len(passed) :
                 passed[i] > t - RateWindow /\ passed[i] <= t})

\* C21: in every window of 60 seconds at most 20 calls of checkRateLimit
\* have returned (a call at the limit sleeps; none is rejected)
C21_SlidingWindow ==
  \A i \in 1..Len(passed) : PassedInWindow(passed[i]) <= RateLimit

(***************************************************************************)
(* Properties of the state store and of error handling in the workflow.    *)
(***************************************************************************)

\* the steps of a run that are a getState or setState with default arguments
StorageOps ==
  {"initializeState", "getState", "setState", "getStateAfterNotification",
   "setStateAfterNotification"}

\* C22 as written: a getState or setState with default arguments calls the
\* key-value backend at most 2 times (attempt counts the calls that failed,
\* so the call about to be made is number attempt + 1)
C22_AtMostTwoCalls ==
  \A r \in Runs : run[r].pc \in StorageOps => run[r].attempt + 1 <= 2

\* C22: a getState or setState with default arguments calls the key-value
\* backend at most 3 times (one attempt and StorageRetries retries); it
\* calls again only after a failed call, it fails with STORAGE_ERROR over a
\* record that exists only when the last of the 3 calls failed, and a
\* successful put ends the operation
C22_AtMostThreeCalls ==
  [][\A r \in Runs :
       run[r].pc \in StorageOps =>
         /\ run[r].attempt + 1 <= StorageRetries + 1
         /\ (run'[r] # run[r] /\ run'[r].pc = run[r].pc) =>
              /\ run'[r].attempt = run[r].attempt + 1
              /\ kv' = kv
         /\ (run'[r].pc = "done" /\ run'[r].result = "STORAGE_ERROR"
               /\ kv.kind # "none") =>
              /\ run[r].attempt = StorageRetries
              /\ kv' = kv
         /\ kv' # kv => run'[r].pc # run[r].pc]_vars

\* a storage operation has failed after its third call
C22_Witness ==
  \E r \in Runs :
    /\ Ended(r) /\ run[r].result = "STORAGE_ERROR"
    /\ run[r].callFailed
    /\ run[r].attempt = StorageRetries
    /\ run[r].firstRun = FALSE

\* C23: when the record exists but fails the structural check, isFirstRun
\* (its kv.get answering) returns true without raising; a run that isFirstRun
\* has declared a first run never reaches the notification steps, and when
\* it returns the record is a valid state whose lastVersion is the version
\* it extracted from the changelog, with no notification sent
C23_CorruptStateSelfHeals ==
  [][\A r \in Runs :
       /\ (run[r].pc = "isFirstRun" /\ kv.kind = "invalid"
             /\ run'[r] # run[r] /\ ~run'[r].callFailed) =>
            /\ run'[r].pc = "fetchChangelog"
            /\ run'[r].firstRun
       /\ run[r].firstRun =>
            run[r].pc \in {"fetchChangelog", "initializeState", "done"}
       /\ (run[r].firstRun /\ run[r].pc # "done" /\ run'[r].pc = "done"
             /\ run'[r].result = "ok") =>
            /\ isValidStorageState(kv')
            /\ kv'.lastVersion = run[r].versionFromChangelog
            /\ isValidSemver(kv'.lastVersion)
            /\ kv'.lastNotificationTime = NoTime
            /\ run'[r].sent = 0
            /\ delivered' = delivered]_vars

\* a run that started over an invalid record has returned as a first run
\* and left a valid state behind
C23_Witness ==
  \E r \in Runs :
    /\ Ended(r) /\ run[r].result = "ok" /\ run[r].firstRun
    /\ run[r].startState = InvalidRecord
    /\ kv = StorageState(run[r].versionFromChangelog, clock, NoTime)
    /\ run[r].sent = 0

\* C24: a read after the first-run check (in handleStateInitialization or in
\* updateStateAfterNotification) that finds no record, the key-value calls
\* of the run all having answered, does not make the run fail
C24_AbsenceIsFirstRun ==
  [][\A r \in Runs :
       (run[r].pc \in {"getState", "getStateAfterNotification"}
          /\ kv.kind = "none"
          /\ run'[r] # run[r] /\ ~run'[r].callFailed) =>
         ~(run'[r].pc = "done" /\ run'[r].result # "ok")]_vars

\* the error codes that the step at pc can raise out of the workflow
Raises(pc) ==
  CASE pc = "idle" -> {"CONFIG_ERROR"}
    [] pc \in {"fetchChangelog", "fetchDetails"} -> {"FETCH_ERROR", "PARSE_ERROR"}
    [] pc = "sendTelegramNotification" -> {"API_ERROR"}
    [] OTHER -> {"STORAGE_ERROR"}

\* C25: a run returns normally only by the write that completes it (the
\* first-run baseline, the check-time update without a new version, or the
\* state update after the notification); in every other case it ends with
\* the error of the step that failed, re-thrown to the caller of scheduled
C25_ErrorsPropagate ==
  [][\A r \in Runs :
       (run[r].pc # "done" /\ run'[r].pc = "done") =>
         /\ run'[r].result = "ok" <=>
              /\ run[r].pc \in {"initializeState", "setState",
                                "setStateAfterNotification"}
              /\ kv' = run[r].updatedState /\ kv' # kv
         /\ run'[r].result # "ok" =>
              /\ run'[r].result \in Raises(run[r].pc)
              /\ kv' = kv /\ delivered' = delivered
              /\ run[r].pc = "fetchChangelog" =>
                   run'[r].result = run'[r].fetchError.code]_vars

\* the notification has failed three times and the API_ERROR has been
\* re-thrown
C25_Witness ==
  \E r \in Runs :
    /\ Ended(r) /\ run[r].result = "API_ERROR"
    /\ run[r].attempt = SendRetries - 1
    /\ run[r].sent = 0

\* C26: when the state that a run has read carries a lastVersion that is no
\* semantic version, or the version it extracted is none, the comparison
\* that follows the check-time update ends the run with PARSE_ERROR
C26_InvalidSemverSurfaced ==
  [][\A r \in Runs :
       (run[r].pc = "setState" /\ run'[r].pc # "setState"
          /\ kv' = run[r].updatedState
          /\ \/ ~isValidSemver(run[r].currentState.lastVersion)
             \/ ~isValidSemver(run[r].versionFromChangelog)) =>
         (run'[r].pc = "done" /\ run'[r].result = "PARSE_ERROR")]_vars

\* C27: once fn has failed with the rejection of an open circuit breaker,
\* withRetry, whatever its strategy, invokes fn no more and throws that
\* rejection
C27_CircuitOpenNotRetried ==
  \A i \in 1..Len(wr.invocations) :
    (wr.invocations[i].kind = "WorkerError"
       /\ wr.invocations[i].code = "UNKNOWN_ERROR") =>
      /\ i = Len(wr.invocations)
      /\ wr.pc = "thrown"
      /\ wr.thrown = wr.invocations[i]

(***************************************************************************)
(* Properties of the comparator.                                           *)
(***************************************************************************)

\* C28: for valid versions a and b, compareVersions(a, b) is the negation of
\* compareVersions(b, a), and compareVersions(a, a) is 0
C28_AntisymmetricReflexive ==
  (compared.called /\ isValidSemver(v1) /\ isValidSemver(v2)) =>
    /\ compared.v1v2 \in {-1, 0, 1}
    /\ compared.v1v2 = 0 - compared.v2v1
    /\ compared.v1v1 = 0

\* a mixed identifier against an alphanumeric one, compared both ways
C28_Witness ==
  /\ compared.called
  /\ v1 = V100 \o <<"-", "1", "a">> /\ v2 = V100 \o <<"-", "a">>
  /\ compared.v1v2 = -1 /\ compared.v2v1 = 1 /\ compared.v1v1 = 0

\* C29: for valid versions a, b and c, when compareVersions(a, b) < 0 and
\* compareVersions(b, c) < 0 then compareVersions(a, c) < 0
C29_Transitive ==
  (compared.called /\ isValidSemver(v1) /\ isValidSemver(v2)
     /\ isValidSemver(v3)
     /\ compared.v1v2 < 0 /\ compared.v2v3 < 0) =>
    compared.v1v3 < 0

\* a chain of a mixed, a numeric and an alphanumeric identifier
C29_Witness ==
  /\ compared.called
  /\ v1 = V100 \o <<"-", "1", "a">> /\ v2 = V100 \o <<"-", "2">>
  /\ v3 = V100 \o <<"-", "a">>
  /\ compared.v1v2 < 0 /\ compared.v2v3 < 0 /\ compared.v1v3 < 0

\* code point of a character of a pre-release
Ascii(c) ==
  CASE c = "-" -> 45
    [] c \in Digits -> 48 + DigitVal(c)
    [] c = "A" -> 65 [] c = "B" -> 66
    [] c = "a" -> 97 [] c = "b" -> 98 [] c = "e" -> 101 [] c = "h" -> 104
    [] c = "l" -> 108 [] c = "p" -> 112 [] c = "t" -> 116
    [] OTHER -> 0

\* two identifiers in ASCII code-point order
RECURSIVE AsciiOrder(_, _)
AsciiOrder(a, b) ==
  IF Len(a) = 0 /\ Len(b) = 0 THEN 0
  ELSE IF Len(a) = 0 THEN -1
  ELSE IF Len(b) = 0 THEN 1
  ELSE IF Ascii(a[1]) # Ascii(b[1])
    THEN IF Ascii(a[1]) > Ascii(b[1]) THEN 1 ELSE -1
  ELSE AsciiOrder(Tail(a), Tail(b))

\* the order of two identifier sequences that the claim describes
RECURSIVE IdentifierOrder(_, _, _)
IdentifierOrder(ids1, ids2, i) ==
  IF i > Len(ids1) /\ i > Len(ids2) THEN 0
  ELSE IF i > Len(ids1) THEN -1
  ELSE IF i > Len(ids2) THEN 1
  ELSE LET a == ids1[i]
           b == ids2[i]
           order ==
             IF IsDigits(a) /\ IsDigits(b)
               THEN IF DigitsToNat(a) = DigitsToNat(b) THEN 0
                    ELSE IF DigitsToNat(a) > DigitsToNat(b) THEN 1 ELSE -1
             ELSE IF IsDigits(a) THEN -1
             ELSE IF IsDigits(b) THEN 1
             ELSE AsciiOrder(a, b)
       IN IF order # 0 THEN order ELSE IdentifierOrder(ids1, ids2, i + 1)

\* the core of a version, and its whole pre-release: what stands between
\* the first hyphen and the build metadata
CoreOf(v) ==
  LET body == Split(v, "+")[1]
      dash == IndexOf(body, "-")
  IN IF dash = 0 THEN body ELSE SubSeq(body, 1, dash - 1)

PrereleaseOf(v) ==
  LET body == Split(v, "+")[1]
      dash == IndexOf(body, "-")
  IN IF dash = 0 THEN <<>> ELSE SubSeq(body, dash + 1, Len(body))

\* C30: for two valid versions with the same core that both have a
\* pre-release, compareVersions orders them identifier by identifier over
\* the whole dot-separated pre-release: numeric identifiers numerically, a
\* numeric identifier below an alphanumeric one, alphanumeric identifiers
\* in ASCII order, a proper prefix below the longer sequence
C30_PrereleaseOrder ==
  (compared.called /\ isValidSemver(v1) /\ isValidSemver(v2)
     /\ CoreOf(v1) = CoreOf(v2)
     /\ PrereleaseOf(v1) # <<>> /\ PrereleaseOf(v2) # <<>>) =>
    compared.v1v2 = IdentifierOrder(Split(PrereleaseOf(v1), "."),
                                    Split(PrereleaseOf(v2), "."), 1)

\* a component of the core has more than one digit and starts with 0
HasLeadingZero(v) ==
  LET nums == Split(CoreOf(v), ".")
  IN \E i \in 1..Len(nums) :
       IsDigits(nums[i]) /\ Len(nums[i]) > 1 /\ nums[i][1] = "0"

\* C31: a version whose major, minor or patch has a leading zero is not a
\* valid semantic version, and compareVersions answers it with ParseError
C31_LeadingZeroRejected ==
  HasLeadingZero(v1) =>
    /\ ~isValidSemver(v1)
    /\ compared.called => compared.v1v2 = ParseError

(***************************************************************************)
(* Properties of parseChangelog.                                           *)
(***************************************************************************)

\* the lines of the document that are version headings
HeadingLines == {i \in 1..Len(markdown) : markdown[i].kind = "version"}

\* a bullet or sub-heading stands between heading i and the next heading
HasNotes(i) ==
  \E j \in (i + 1)..Len(markdown) :
    /\ markdown[j].kind \in {"bullet", "subheading"}
    /\ \A k \in (i + 1)..j : markdown[k].kind # "version"

\* the headings among lines i..Len(markdown) that have notes, in order
RECURSIVE NotedFrom(_)
NotedFrom(i) ==
  IF i > Len(markdown) THEN <<>>
  ELSE IF i \in HeadingLines /\ HasNotes(i)
    THEN <<markdown[i].version>> \o NotedFrom(i + 1)
  ELSE NotedFrom(i + 1)

\* C32: parseChangelog returns the version headings that are followed by a
\* bullet or a level-3 sub-heading, in document order, and the first of
\* them as latestVersion: all N of them when each has one, and never a
\* heading without a note line
C32_VersionsInDocumentOrder ==
  (parsed.called /\ parsed.thrown = "") =>
    /\ [i \in 1..Len(parsed.versions) |-> parsed.versions[i].version]
         = NotedFrom(1)
    /\ parsed.latestVersion = NotedFrom(1)[1]
    /\ (\A i \in HeadingLines : HasNotes(i)) =>
         Len(parsed.versions) = Cardinality(HeadingLines)

\* two headings with notes after a heading without: the first is dropped
C32_Witness ==
  /\ parsed.called
  /\ markdown = <<Heading(V110), Heading(V100), Line("bullet")>>
  /\ Len(parsed.versions) = 1
  /\ parsed.latestVersion = V100

(***************************************************************************)
(* Further properties of the circuit breaker.                              *)
(***************************************************************************)

\* C33: a function that fails while the breaker is half-open leaves it open
\* with lastFailureTime at the time of that failure, and an execute call
\* that finds the breaker open less than a timeout after lastFailureTime is
\* rejected without invoking its function
C33_FailedProbeReopens ==
  [][/\ (state = "half-open" /\ Rejected) =>
          (state' = "open" /\ lastFailureTime' = now)
     /\ (state = "open" /\ now - lastFailureTime < Timeout
           /\ calls' = calls + 1) =>
          /\ rejected' = rejected + 1
          /\ invoked' = invoked /\ pending' = pending
          /\ state' = "open"]_vars

\* Threshold failures opened the breaker, the probe after the timeout
\* failed and re-opened it, and a later call within the new timeout, more
\* than a timeout after the first opening, was rejected
C33_Witness ==
  /\ probes = 1 /\ invoked = Threshold + 1 /\ pending = 0
  /\ outcomes = [i \in 1..(Threshold + 1) |-> "rejected"]
  /\ state = "open" /\ failures = Threshold + 1
  /\ rejected = 1 /\ calls = Threshold + 2
  /\ lastFailureTime >= 2 * Timeout
  /\ now > lastFailureTime /\ now - lastFailureTime < Timeout

(***************************************************************************)
(* Further properties of withRetry.                                        *)
(***************************************************************************)

\* a FETCH_ERROR that carries a 4xx status
FetchClientError(e) ==
  e.kind = "WorkerError" /\ e.code = "FETCH_ERROR"
    /\ e.status >= 400 /\ e.status < 500

\* a FETCH_ERROR without status, or with a status of 500 and above
FetchServerError(e) ==
  e.kind = "WorkerError" /\ e.code = "FETCH_ERROR"
    /\ (e.status = 0 \/ e.status >= 500)

\* C34: under githubUnreachable, a function whose first failure is a
\* FETCH_ERROR with a 4xx status is invoked once and that error is thrown;
\* a function that fails every time with a FETCH_ERROR without status or
\* with a status >= 500 is invoked 3 times before its last error is thrown
C34_FetchRetryPolicy ==
  LET n == Len(wr.invocations) IN
  (wr.strategy = "githubUnreachable" /\ n > 0) =>
    /\ FetchClientError(wr.invocations[1]) =>
         (n = 1 /\ wr.pc = "thrown" /\ wr.thrown = wr.invocations[1])
    /\ (\A i \in 1..n : FetchServerError(wr.invocations[i])) =>
         /\ n <= 3
         /\ n < 3 => wr.pc \in {"sleep", "fn"}
         /\ wr.pc = "thrown" => (n = 3 /\ wr.thrown = wr.invocations[3])

\* three failures with a 503, and the third has been thrown
C34_Witness ==
  /\ wr.strategy = "githubUnreachable" /\ wr.pc = "thrown"
  /\ Len(wr.invocations) = 3
  /\ \A i \in 1..3 : wr.invocations[i].status = 503
  /\ wr.thrown.id = 3

\* C35: each sleep of withRetry is getRetryDelay(attempt, error) for the
\* error just raised, so that under telegramApi the sleep that follows a
\* RATE_LIMIT_ERROR with retryAfter r lasts r seconds
C35_SleepUsesRaisedError ==
  \A i \in 1..Len(wr.sleeps) :
    /\ wr.sleeps[i] = getRetryDelay(wr.strategy, i - 1, wr.invocations[i])
    /\ (wr.strategy = "telegramApi"
          /\ wr.invocations[i].code = "RATE_LIMIT_ERROR"
          /\ wr.invocations[i].retryAfter > 0) =>
         wr.sleeps[i] = wr.invocations[i].retryAfter * 1000

(***************************************************************************)
(* Further properties of the workflow.                                     *)
(***************************************************************************)

\* C36: while the latest version of the changelog never decreases, no
\* write replaces lastVersion by a version older than the one stored just
\* before it, overlapping runs included
C36_LastVersionMonotone ==
  [][(kv.kind = "valid" /\ kv'.kind = "valid") =>
       compareVersions(kv'.lastVersion, kv.lastVersion) >= 0]_vars

\* C37: the lastVersion that a run writes after its notification was
\* delivered is the version of the message it dispatched
C37_StoredVersionIsMessageVersion ==
  [][\A r \in Runs :
       (run[r].pc = "setStateAfterNotification" /\ run'[r].pc = "done"
          /\ run'[r].result = "ok") =>
         /\ run[r].sent > 0
         /\ kv'.lastVersion = run[r].messageVersion]_vars

\* C38: under githubUnreachable, telegramApi and kvStorage, once the
\* invocation number maxAttempts has failed the error is thrown with no
\* sleep after that invocation
C38_NoSleepAfterLastAttempt ==
  LET n == Len(wr.invocations) IN
  (/\ wr.strategy \in {"githubUnreachable", "telegramApi", "kvStorage"}
   /\ n = maxAttempts(wr.strategy)
   /\ AllFailed(wr.invocations)) =>
    /\ wr.pc = "thrown"
    /\ Len(wr.sleeps) = n - 1

\* C39: the breaker is open or half-open only with a failure count of at
\* least the threshold, and a reset (the one step that clears
\* lastFailureTime) leaves it closed with a failure count of 0
C39_StateInvariant ==
  /\ [](state \in {"open", "half-open"} => failures >= Threshold)
  /\ [][(lastFailureTime # 0 /\ lastFailureTime' = 0) =>
          (state' = "closed" /\ failures' = 0)]_vars

\* a breaker that was open (it has rejected a call) and was never probed
\* has been reset
C39_Witness ==
  /\ LastFailed(outcomes, Threshold) /\ rejected > 0 /\ probes = 0
  /\ pending = 0
  /\ state = "closed" /\ failures = 0 /\ lastFailureTime = 0

\* C40: the record carries a lastNotificationTime only when a notification
\* has been delivered; the write that sets it is the state update of a run
\* that has delivered one, the check-time update of a run writes back the
\* one of the record the run read, and the initialisation of a first run
\* writes a record without it
C40_NotificationTimeOnlyAfterDelivery ==
  /\ [](kv.lastNotificationTime # NoTime => \E v \in Pool : delivered[v] > 0)
  /\ [][kv' # kv =>
          \E r \in Runs :
            /\ kv' = run[r].updatedState
            /\ \/ /\ run[r].pc = "initializeState"
                  /\ kv'.lastNotificationTime = NoTime
               \/ /\ run[r].pc = "setState"
                  /\ kv'.lastNotificationTime =
                       run[r].currentState.lastNotificationTime
               \/ /\ run[r].pc = "setStateAfterNotification"
                  /\ run[r].sent > 0
                  /\ kv'.lastNotificationTime # NoTime]_vars

\* a check-only run has returned over a record that an earlier run stamped
\* after its notification
C40_Witness ==
  \E r \in Runs :
    /\ Ended(r) /\ run[r].result = "ok" /\ run[r].sent = 0
    /\ run[r].startState.kind = "valid"
    /\ run[r].startState.lastNotificationTime # NoTime
    /\ kv.lastNotificationTime = run[r].startState.lastNotificationTime
    /\ kv.lastCheckTime # run[r].startState.lastCheckTime

====
